---- MODULE Spec2Model ----
(***************************************************************************)
(* Model of the viewport core of wsi-viewer (src/viewer/image_handler.py)  *)
(* together with the collaborators it talks to: the image decoder          *)
(* (pyvips), the tiling metadata reader (tifffile) and the presentation    *)
(* layer (get_display_area_size / show_image).                             *)
(*                                                                         *)
(* Python floats are modelled as exact rationals <<n, d>> (d > 0, lowest   *)
(* terms).  The display sizes and image sizes of the model are chosen so   *)
(* that every float the handler computes on them is exactly representable, *)
(* hence int() of the float and Trunc of the rational agree.               *)
(***************************************************************************)
EXTENDS Integers, Sequences, FiniteSets, TLC

\* Python's None for a string-valued attribute; Absent/Some for the others
None == "None"
Absent == <<>>
Some(x) == <<x>>
\* a Python assignment: the right-hand side v is evaluated once and the code
\* that follows, F, reads the value
Bind(v, F(_)) == CHOOSE r \in {F(x) : x \in {v}} : TRUE

(* ------------------------------ bounds --------------------------------- *)
\* largest source image edge of the model's files
MaxEdge == 8
\* the largest display edge offered by the presentation layer is 2^DispLog
DispLog == 2
\* number of calls and display changes of one session
MaxSteps == 4

(* --------------------------- program constants ------------------------- *)
DS_SCALE == 4
MIN_CACHE_IMAGE_SIZE == 1000

(* ------------------------- rational arithmetic ------------------------- *)
Abs(x) == IF x < 0 THEN -x ELSE x

RECURSIVE GCD(_, _)
GCD(a, b) == IF b = 0 THEN a ELSE GCD(b, a % b)

Norm(n, d) ==
    Bind(<<n, d>>, LAMBDA p :
    Bind(GCD(Abs(p[1]), Abs(p[2])), LAMBDA g :
        IF p[2] < 0 THEN <<(-p[1]) \div g, (-p[2]) \div g>>
        ELSE <<p[1] \div g, p[2] \div g>>))

Q(n) == <<n, 1>>
QAdd(a, b) == Norm(a[1] * b[2] + b[1] * a[2], a[2] * b[2])
QSub(a, b) == Norm(a[1] * b[2] - b[1] * a[2], a[2] * b[2])
QMul(a, b) == Norm(a[1] * b[1], a[2] * b[2])
QDiv(a, b) == Norm(a[1] * b[2], a[2] * b[1])
QLt(a, b) == a[1] * b[2] < b[1] * a[2]
QLe(a, b) == a[1] * b[2] <= b[1] * a[2]
QMax(a, b) == IF QLt(a, b) THEN b ELSE a
QMin(a, b) == IF QLt(b, a) THEN b ELSE a
\* Python int(x): truncation toward zero
Trunc(a) == IF a[1] >= 0 THEN a[1] \div a[2] ELSE -((-a[1]) \div a[2])
\* Python x // n on integers: floor division
FloorDiv(x, n) == x \div n
Min(x, y) == IF x < y THEN x ELSE y
Max(x, y) == IF x < y THEN y ELSE x

RECURSIVE Pow(_, _)
Pow(b, e) == IF e = 0 THEN 1 ELSE b * Pow(b, e - 1)

(* ------------------------------- files --------------------------------- *)
\* Files the decoder can open: pixel size and the tiling metadata of page 0.
FileInfo ==
    [a |-> [width |-> MaxEdge, height |-> MaxEdge, is_tiled |-> TRUE,
            TileWidth |-> MaxEdge, TileLength |-> MaxEdge \div 2],
     b |-> [width |-> MaxEdge \div 2, height |-> 2, is_tiled |-> FALSE,
            TileWidth |-> 0, TileLength |-> 0],
     c |-> [width |-> 16000, height |-> 16000, is_tiled |-> TRUE,
            TileWidth |-> 4000, TileLength |-> 4000],
     d |-> [width |-> 20000, height |-> 15000, is_tiled |-> FALSE,
            TileWidth |-> 0, TileLength |-> 0]]
GoodFiles == DOMAIN FileInfo
\* the small files of the sessions of Spec, and the whole-slide sized ones
SmallFiles == {"a", "b"}
SlideFiles == {"c", "d"}
\* a path pyvips.Image.new_from_file cannot decode
BadFile == "bad"
Paths == SmallFiles \cup {BadFile}

MaxDisp == Pow(2, DispLog)
\* display-area sizes get_display_area_size can report (0 = not laid out)
DispSizes == {<<0, MaxDisp>>, <<MaxDisp, 0>>, <<MaxDisp, MaxDisp>>,
              <<MaxDisp \div 2, MaxDisp>>}

\* pointer positions used by the gestures on a display of size d: two
\* corners of the left edge, the centre and the far corner
DispPoints(d) == {<<0, 0>>, <<0, d[2]>>, <<d[1] \div 2, d[2] \div 2>>, <<d[1], d[2]>>}

(* --------------------------- pyvips images ----------------------------- *)
\* pyvips Image.resize: each edge is scaled and rounded to nearest, never 0
ResizeDim(x, scale) ==
    LET p == QMul(Q(x), scale)
        r == (2 * p[1] + p[2]) \div (2 * p[2])
    IN  Max(1, r)

Img(w, h, f) == [width |-> w, height |-> h, src |-> f]

(* --------------------------- handler state ----------------------------- *)
VARIABLES
    src_image,        \* None or the path of the decoded image
    current_view,     \* <<left, top, right, bottom>>, each a rational
    image_cache,      \* sequence of pyramid levels, level 0 first
    highlight_mode,   \* BOOLEAN
    highlighted_area, \* Absent (None) or Some([shape |-> <<rows, cols>>, on |-> set of <<ty, tx>>])
    tile_width,       \* Absent while the attribute does not exist, else Some(n)
    tile_length,      \* Absent while the attribute does not exist, else Some(n)
    current_image,    \* Absent while the attribute does not exist, else <<w, h>>
    disp,             \* what gui.get_display_area_size() returns
    frame,            \* Absent or Some(last frame handed to gui.show_image, with its viewport)
    last,             \* the last handler call: name, argument (where a property needs it), exception, rendered
    hist,             \* Absent or Some(the state before a pair of consecutive equal-point calls)
    steps,            \* number of calls and display changes so far
    wheel_delta,      \* Tk front-end: wheel ticks counted and not yet handed to the core
    scroll_timer,     \* Tk front-end: Absent (None) or Some(the timer last created with after())
    start_x,          \* Tk front-end: Absent (None) or Some(where the pointer was pressed)
    start_y,
    select_mode       \* Tk front-end: BOOLEAN

core == <<src_image, current_view, image_cache, highlight_mode,
          highlighted_area, tile_width, tile_length, current_image>>
vars == <<src_image, current_view, image_cache, highlight_mode,
          highlighted_area, tile_width, tile_length, current_image,
          disp, frame, last, hist, steps,
          wheel_delta, scroll_timer, start_x, start_y, select_mode>>
\* the attributes of the Tk SlideViewer
tkgui == <<wheel_delta, scroll_timer, start_x, start_y, select_mode>>

\* the handler's attributes and the gui as one value; err is the exception
\* the running call has raised (None: none), shown whether it called show_image
St == [src_image |-> src_image, current_view |-> current_view,
       image_cache |-> image_cache, highlight_mode |-> highlight_mode,
       highlighted_area |-> highlighted_area, tile_width |-> tile_width,
       tile_length |-> tile_length, current_image |-> current_image,
       disp |-> disp, frame |-> frame, err |-> None, shown |-> FALSE]

Raise(s, e) == [s EXCEPT !.err = e]

SrcWidth(s) == FileInfo[s.src_image].width
SrcHeight(s) == FileInfo[s.src_image].height
ViewW(s) == QSub(s.current_view[3], s.current_view[1])
ViewH(s) == QSub(s.current_view[4], s.current_view[2])

(* ----------------------------- pyramid --------------------------------- *)
\* the while loop of _create_image_cache; failAt is the level whose resize
\* raises (0: none does).  Returns [cache, ok].
\* the loop with the test of line 87 written geom_mean <= MIN_CACHE_IMAGE_SIZE
RECURSIVE CacheLoop_StopAtMin(_, _, _, _)
CacheLoop_StopAtMin(cache, current_image_, current_level, failAt) ==
    LET next_width == Trunc(QDiv(Q(current_image_.width), Q(DS_SCALE)))
        next_height == Trunc(QDiv(Q(current_image_.height), Q(DS_SCALE)))
        downsampled == Img(ResizeDim(current_image_.width, <<1, DS_SCALE>>),
                           ResizeDim(current_image_.height, <<1, DS_SCALE>>),
                           current_image_.src)
    IN  IF failAt = current_level + 1
        THEN [cache |-> cache, ok |-> FALSE]
        ELSE IF next_width * next_height <= MIN_CACHE_IMAGE_SIZE * MIN_CACHE_IMAGE_SIZE
             THEN [cache |-> Append(cache, downsampled), ok |-> TRUE]
             ELSE CacheLoop_StopAtMin(Append(cache, downsampled), downsampled,
                            current_level + 1, failAt)

RECURSIVE CacheLoop(_, _, _, _)
CacheLoop(cache, current_image_, current_level, failAt) ==
    LET next_width == Trunc(QDiv(Q(current_image_.width), Q(DS_SCALE)))
        next_height == Trunc(QDiv(Q(current_image_.height), Q(DS_SCALE)))
        downsampled == Img(ResizeDim(current_image_.width, <<1, DS_SCALE>>),
                           ResizeDim(current_image_.height, <<1, DS_SCALE>>),
                           current_image_.src)
    IN  IF failAt = current_level + 1
        THEN [cache |-> cache, ok |-> FALSE]
        ELSE IF next_width * next_height < MIN_CACHE_IMAGE_SIZE * MIN_CACHE_IMAGE_SIZE
             THEN [cache |-> Append(cache, downsampled), ok |-> TRUE]
             ELSE CacheLoop(Append(cache, downsampled), downsampled,
                            current_level + 1, failAt)

CreateImageCache(s, failAt) ==
    IF s.src_image = None THEN s
    ELSE Bind(Img(SrcWidth(s), SrcHeight(s), s.src_image), LAMBDA src :
         Bind(CacheLoop(<<src>>, src, 0, failAt), LAMBDA r :
             IF r.ok THEN [s EXCEPT !.image_cache = r.cache]
             ELSE Raise([s EXCEPT !.image_cache = r.cache], "Error")))

\* the loop with the test of line 111 written level_scale < scale_factor
RECURSIVE BestLevelLoop_Strict(_, _, _, _)
BestLevelLoop_Strict(level, n, scale_factor, best_level) ==
    IF level >= n THEN best_level
    ELSE IF QLt(Q(Pow(DS_SCALE, level)), scale_factor)
         THEN BestLevelLoop_Strict(level + 1, n, scale_factor, level)
         ELSE best_level

RECURSIVE BestLevelLoop(_, _, _, _)
BestLevelLoop(level, n, scale_factor, best_level) ==
    IF level >= n THEN best_level
    ELSE IF QLe(Q(Pow(DS_SCALE, level)), scale_factor)
         THEN BestLevelLoop(level + 1, n, scale_factor, level)
         ELSE best_level

GetBestCacheLevel(s, target_width, target_height) ==
    IF Len(s.image_cache) = 0 THEN 0
    ELSE IF target_width = 0 \/ target_height = 0 THEN Len(s.image_cache) - 1
    ELSE BestLevelLoop(0, Len(s.image_cache),
                       QMax(QDiv(ViewW(s), Q(target_width)),
                            QDiv(ViewH(s), Q(target_height))), 0)

(* --------------------------- highlight grid ---------------------------- *)
CeilDiv(x, n) == (x + n - 1) \div n

InitHighlightedTiles(s) ==
    LET page == FileInfo[s.src_image]
    IN  IF ~page.is_tiled
        THEN [s EXCEPT !.highlighted_area = Some([shape |-> <<1, 1>>, on |-> {}])]
        ELSE [s EXCEPT !.tile_width = Some(page.TileWidth),
                       !.tile_length = Some(page.TileLength),
                       !.highlighted_area =
                           Some([shape |-> <<CeilDiv(page.height, page.TileLength),
                                             CeilDiv(page.width, page.TileWidth)>>,
                                 on |-> {}])]

\* _draw_highlight_overlay changes pixels only; what the model keeps of it is
\* the exception it can raise: the scale divides by the display size and the
\* tile attributes must exist
DrawHighlightOverlay(s) ==
    IF s.disp[1] = 0 \/ s.disp[2] = 0 THEN Raise(s, "ZeroDivisionError")
    ELSE IF s.tile_width = Absent THEN Raise(s, "AttributeError")
    ELSE s

(* ------------------------------ render --------------------------------- *)
\* resize_image_box with max in place of min: the image covers the box
ResizeImageBox_Fill(iw, ih, target_width, target_height) ==
    LET scale_factor == QMax(QDiv(Q(target_width), Q(iw)), QDiv(Q(target_height), Q(ih)))
    IN  <<ResizeDim(iw, scale_factor), ResizeDim(ih, scale_factor)>>

\* resize_image_box: fit within the box, keeping the aspect ratio
ResizeImageBox(iw, ih, target_width, target_height) ==
    LET scale_factor == QMin(QDiv(Q(target_width), Q(iw)), QDiv(Q(target_height), Q(ih)))
    IN  <<ResizeDim(iw, scale_factor), ResizeDim(ih, scale_factor)>>

\* show_current_view with the "is None" test of line 150 dropped: the grid is
\* initialised again on every render in highlight mode
ShowCurrentView_Reinit(s, zeroOk) ==
    IF s.src_image = None THEN s
    ELSE
    Bind(GetBestCacheLevel(s, s.disp[1], s.disp[2]), LAMBDA cache_level :
    LET w == s.disp[1]
        h == s.disp[2]
        level_scale == Q(Pow(DS_SCALE, cache_level))
        cached_left == Trunc(QDiv(s.current_view[1], level_scale))
        cached_top == Trunc(QDiv(s.current_view[2], level_scale))
        cached_image == s.image_cache[cache_level + 1]
        cached_width == Min(Trunc(QDiv(ViewW(s), level_scale)),
                            cached_image.width - cached_left)
        cached_height == Min(Trunc(QDiv(ViewH(s), level_scale)),
                             cached_image.height - cached_top)
    IN  IF cached_width <= 0 \/ cached_height <= 0 THEN s
        ELSE IF cached_left < 0 \/ cached_top < 0 THEN Raise(s, "Error")
        ELSE IF (w = 0 \/ h = 0) /\ ~zeroOk THEN Raise(s, "Error")
        ELSE
        Bind([s EXCEPT !.current_image =
                 ResizeImageBox(cached_width, cached_height, w, h)], LAMBDA s1 :
        LET s2 == IF s1.highlight_mode
                  THEN InitHighlightedTiles(s1) ELSE s1
            s3 == IF s2.highlight_mode THEN DrawHighlightOverlay(s2) ELSE s2
        IN  IF s3.err # None THEN s3
            ELSE [s3 EXCEPT !.frame = Some([size |-> s3.current_image,
                                            view |-> s3.current_view]),
                            !.shown = TRUE]))

\* zeroOk: whether pyvips accepts resize(0) (and returns a 1 x 1 image) or raises
ShowCurrentView(s, zeroOk) ==
    IF s.src_image = None THEN s
    ELSE
    Bind(GetBestCacheLevel(s, s.disp[1], s.disp[2]), LAMBDA cache_level :
    LET w == s.disp[1]
        h == s.disp[2]
        level_scale == Q(Pow(DS_SCALE, cache_level))
        cached_left == Trunc(QDiv(s.current_view[1], level_scale))
        cached_top == Trunc(QDiv(s.current_view[2], level_scale))
        cached_image == s.image_cache[cache_level + 1]
        cached_width == Min(Trunc(QDiv(ViewW(s), level_scale)),
                            cached_image.width - cached_left)
        cached_height == Min(Trunc(QDiv(ViewH(s), level_scale)),
                             cached_image.height - cached_top)
    IN  IF cached_width <= 0 \/ cached_height <= 0 THEN s
        ELSE IF cached_left < 0 \/ cached_top < 0 THEN Raise(s, "Error")
        ELSE IF (w = 0 \/ h = 0) /\ ~zeroOk THEN Raise(s, "Error")
        ELSE
        Bind([s EXCEPT !.current_image =
                 ResizeImageBox(cached_width, cached_height, w, h)], LAMBDA s1 :
        LET s2 == IF s1.highlight_mode /\ s1.highlighted_area = Absent
                  THEN InitHighlightedTiles(s1) ELSE s1
            s3 == IF s2.highlight_mode THEN DrawHighlightOverlay(s2) ELSE s2
        IN  IF s3.err # None THEN s3
            ELSE [s3 EXCEPT !.frame = Some([size |-> s3.current_image,
                                            view |-> s3.current_view]),
                            !.shown = TRUE]))

(* ----------------------------- viewport -------------------------------- *)
\* fix_boundaries without the shift of line 272: a rectangle that overflows
\* the bottom edge is cut there
FixBoundaries_CutBottom(s) ==
    IF s.src_image = None THEN Raise(s, "AttributeError")
    ELSE
    LET W == Q(SrcWidth(s))
        H == Q(SrcHeight(s))
        l0 == s.current_view[1]
        t0 == s.current_view[2]
        r0 == s.current_view[3]
        b0 == s.current_view[4]
        overR == QLt(W, r0)
        l1 == IF overR THEN QSub(l0, QSub(r0, W)) ELSE l0
        r1 == IF overR THEN W ELSE r0
        bottomIsImage == QLt(H, b0)
        negL == QLt(l1, Q(0))
        r2 == IF negL THEN QSub(r1, l1) ELSE r1
        l2 == IF negL THEN Q(0) ELSE l1
        negT == QLt(t0, Q(0))
        b2 == IF negT /\ ~bottomIsImage THEN QSub(b0, t0) ELSE b0
        t2 == IF negT THEN Q(0) ELSE t0
        r3 == IF QLt(W, r2) THEN W ELSE r2
        b3 == IF bottomIsImage \/ QLt(H, b2) THEN H ELSE b2
    IN  [s EXCEPT !.current_view = <<l2, t2, r3, b3>>]

\* fix_boundaries.  Line 273 stores the image object itself in bottom; pyvips
\* overloads - and > on images (the result is an image, which is truthy), so
\* bottomIsImage records that bottom holds an image until line 287 replaces it.
FixBoundaries(s) ==
    IF s.src_image = None THEN Raise(s, "AttributeError")
    ELSE
    LET W == Q(SrcWidth(s))
        H == Q(SrcHeight(s))
        l0 == s.current_view[1]
        t0 == s.current_view[2]
        r0 == s.current_view[3]
        b0 == s.current_view[4]
        overR == QLt(W, r0)
        l1 == IF overR THEN QSub(l0, QSub(r0, W)) ELSE l0
        r1 == IF overR THEN W ELSE r0
        bottomIsImage == QLt(H, b0)
        t1 == IF bottomIsImage THEN QSub(t0, QSub(b0, H)) ELSE t0
        negL == QLt(l1, Q(0))
        r2 == IF negL THEN QSub(r1, l1) ELSE r1
        l2 == IF negL THEN Q(0) ELSE l1
        negT == QLt(t1, Q(0))
        b2 == IF negT /\ ~bottomIsImage THEN QSub(b0, t1) ELSE b0
        t2 == IF negT THEN Q(0) ELSE t1
        r3 == IF QLt(W, r2) THEN W ELSE r2
        b3 == IF bottomIsImage \/ QLt(H, b2) THEN H ELSE b2
    IN  [s EXCEPT !.current_view = <<l2, t2, r3, b3>>]

\* get_display_to_source_scale, where the display size is not zero
GetDisplayToSourceScale(s) ==
    QMax(QDiv(ViewW(s), Q(s.disp[1])), QDiv(ViewH(s), Q(s.disp[2])))

DispZero(s) == s.disp[1] = 0 \/ s.disp[2] = 0

DispCoordToSrc(s, dispPt) ==
    LET disp_to_src_scale == GetDisplayToSourceScale(s)
    IN  <<Trunc(QAdd(s.current_view[1], QMul(Q(dispPt[1]), disp_to_src_scale))),
          Trunc(QAdd(s.current_view[2], QMul(Q(dispPt[2]), disp_to_src_scale)))>>

Half(q) == QDiv(q, Q(2))

\* scale_image without the division of lines 352-353: the factor is ignored
ScaleImage_NoFactor(s, center_disp, factor, zeroOk) ==
    IF DispZero(s) THEN Raise(s, "ZeroDivisionError")
    ELSE
    Bind(GetDisplayToSourceScale(s), LAMBDA disp_to_src_scale :
    Bind(DispCoordToSrc(s, center_disp), LAMBDA c :
    LET old_src_w == QMul(Q(s.disp[1]), disp_to_src_scale)
        old_src_h == QMul(Q(s.disp[2]), disp_to_src_scale)
        new_src_w == old_src_w
        new_src_h == old_src_h
    IN  Bind([s EXCEPT !.current_view =
                 <<Q(Trunc(QSub(Q(c[1]), Half(new_src_w)))),
                   Q(Trunc(QSub(Q(c[2]), Half(new_src_h)))),
                   Q(Trunc(QAdd(Q(c[1]), Half(new_src_w)))),
                   Q(Trunc(QAdd(Q(c[2]), Half(new_src_h))))>>], LAMBDA s1 :
        Bind(FixBoundaries(s1), LAMBDA s2 :
            IF s2.err # None THEN s2 ELSE ShowCurrentView(s2, zeroOk)))))

ScaleImage(s, center_disp, factor, zeroOk) ==
    IF DispZero(s) THEN Raise(s, "ZeroDivisionError")
    ELSE
    Bind(GetDisplayToSourceScale(s), LAMBDA disp_to_src_scale :
    Bind(DispCoordToSrc(s, center_disp), LAMBDA c :
    LET old_src_w == QMul(Q(s.disp[1]), disp_to_src_scale)
        old_src_h == QMul(Q(s.disp[2]), disp_to_src_scale)
        new_src_w == QDiv(old_src_w, factor)
        new_src_h == QDiv(old_src_h, factor)
    IN  Bind([s EXCEPT !.current_view =
                 <<Q(Trunc(QSub(Q(c[1]), Half(new_src_w)))),
                   Q(Trunc(QSub(Q(c[2]), Half(new_src_h)))),
                   Q(Trunc(QAdd(Q(c[1]), Half(new_src_w)))),
                   Q(Trunc(QAdd(Q(c[2]), Half(new_src_h))))>>], LAMBDA s1 :
        Bind(FixBoundaries(s1), LAMBDA s2 :
            IF s2.err # None THEN s2 ELSE ShowCurrentView(s2, zeroOk)))))

\* drag with the movement added to the viewport instead of subtracted
Drag_Add(s, movement, zeroOk) ==
    IF s.src_image = None THEN s
    ELSE IF DispZero(s) THEN Raise(s, "ZeroDivisionError")
    ELSE
    Bind(GetDisplayToSourceScale(s), LAMBDA disp_to_src_scale :
    LET dx == QMul(Q(movement[3] - movement[1]), disp_to_src_scale)
        dy == QMul(Q(movement[4] - movement[2]), disp_to_src_scale)
    IN  Bind([s EXCEPT !.current_view =
                 <<QAdd(s.current_view[1], dx), QAdd(s.current_view[2], dy),
                   QAdd(s.current_view[3], dx), QAdd(s.current_view[4], dy)>>],
             LAMBDA s1 :
        Bind(FixBoundaries(s1), LAMBDA s2 :
            IF s2.err # None THEN s2 ELSE ShowCurrentView(s2, zeroOk))))

Drag(s, movement, zeroOk) ==
    IF s.src_image = None THEN s
    ELSE IF DispZero(s) THEN Raise(s, "ZeroDivisionError")
    ELSE
    Bind(GetDisplayToSourceScale(s), LAMBDA disp_to_src_scale :
    LET dx == QMul(Q(movement[3] - movement[1]), disp_to_src_scale)
        dy == QMul(Q(movement[4] - movement[2]), disp_to_src_scale)
    IN  Bind([s EXCEPT !.current_view =
                 <<QSub(s.current_view[1], dx), QSub(s.current_view[2], dy),
                   QSub(s.current_view[3], dx), QSub(s.current_view[4], dy)>>],
             LAMBDA s1 :
        Bind(FixBoundaries(s1), LAMBDA s2 :
            IF s2.err # None THEN s2 ELSE ShowCurrentView(s2, zeroOk))))

ZoomIn(s, center, factor, zeroOk) ==
    IF s.src_image = None THEN s ELSE ScaleImage(s, center, factor, zeroOk)

ZoomOut(s, center, factor, zeroOk) ==
    Bind(QDiv(Q(1), factor), LAMBDA inverse :
        ScaleImage(s, center, inverse, zeroOk))

ZoomSelect(s, selection, zeroOk) ==
    IF s.src_image = None THEN s
    ELSE
    LET x1 == selection[1]
        y1 == selection[2]
        x2 == selection[3]
        y2 == selection[4]
        select_width == Abs(x2 - x1)
        select_height == Abs(y2 - y1)
        select_center == <<FloorDiv(x1 + x2, 2), FloorDiv(y1 + y2, 2)>>
    IN  IF DispZero(s) THEN Raise(s, "ZeroDivisionError")
        ELSE Bind(QMax(QDiv(Q(select_width), Q(s.disp[1])),
                       QDiv(Q(select_height), Q(s.disp[2]))),
                  LAMBDA disp_to_select_scale :
                 IF QLt(Q(0), disp_to_select_scale)
                 THEN Bind(QDiv(Q(1), disp_to_select_scale), LAMBDA factor :
                          ScaleImage(s, select_center, factor, zeroOk))
                 ELSE s)

\* redraw_image_resize that keeps the left top corner instead of the centre
RedrawImageResize_KeepCorner(s, zeroOk) ==
    IF s.src_image = None THEN s
    ELSE IF s.current_image = Absent THEN Raise(s, "AttributeError")
    ELSE
    LET new_disp_w == s.disp[1]
        new_disp_h == s.disp[2]
        old_disp_w == s.current_image[1]
        old_disp_h == s.current_image[2]
    IN  Bind(QMax(QDiv(ViewW(s), Q(old_disp_w)), QDiv(ViewH(s), Q(old_disp_h))),
             LAMBDA disp_to_src_scale :
        LET new_src_w == QMul(Q(new_disp_w), disp_to_src_scale)
            new_src_h == QMul(Q(new_disp_h), disp_to_src_scale)
        IN  Bind([s EXCEPT !.current_view =
                     <<Q(Trunc(s.current_view[1])),
                       Q(Trunc(s.current_view[2])),
                       Q(Trunc(QAdd(s.current_view[1], new_src_w))),
                       Q(Trunc(QAdd(s.current_view[2], new_src_h)))>>], LAMBDA s1 :
            Bind(FixBoundaries(s1), LAMBDA s2 :
                IF s2.err # None THEN s2 ELSE ShowCurrentView(s2, zeroOk))))

RedrawImageResize(s, zeroOk) ==
    IF s.src_image = None THEN s
    ELSE IF s.current_image = Absent THEN Raise(s, "AttributeError")
    ELSE
    LET new_disp_w == s.disp[1]
        new_disp_h == s.disp[2]
        old_disp_w == s.current_image[1]
        old_disp_h == s.current_image[2]
        cx == Half(QAdd(s.current_view[1], s.current_view[3]))
        cy == Half(QAdd(s.current_view[2], s.current_view[4]))
    IN  Bind(QMax(QDiv(ViewW(s), Q(old_disp_w)), QDiv(ViewH(s), Q(old_disp_h))),
             LAMBDA disp_to_src_scale :
        LET new_src_w == QMul(Q(new_disp_w), disp_to_src_scale)
            new_src_h == QMul(Q(new_disp_h), disp_to_src_scale)
        IN  Bind([s EXCEPT !.current_view =
                     <<Q(Trunc(QSub(cx, Half(new_src_w)))),
                       Q(Trunc(QSub(cy, Half(new_src_h)))),
                       Q(Trunc(QAdd(cx, Half(new_src_w)))),
                       Q(Trunc(QAdd(cy, Half(new_src_h))))>>], LAMBDA s1 :
            Bind(FixBoundaries(s1), LAMBDA s2 :
                IF s2.err # None THEN s2 ELSE ShowCurrentView(s2, zeroOk))))

(* ------------------------- highlight operations ------------------------ *)
\* mode: Some(TRUE), Some(FALSE) or Absent (None: toggle)
SetHighlightMode(s, mode, zeroOk) ==
    Bind([s EXCEPT !.highlight_mode =
             IF mode = Absent THEN ~s.highlight_mode ELSE mode[1]], LAMBDA s1 :
        ShowCurrentView(s1, zeroOk))

\* a toggle that only ever switches a cell on
Toggle_SetOnly(on, cell) == on \cup {cell}

Toggle(on, cell) == IF cell \in on THEN on \ {cell} ELSE on \cup {cell}

\* set_highlight_tile without the guard of lines 185-186: an uninitialised grid
\* is ignored silently
SetHighlightTile_NoCheck(s, loc_disp, value, zeroOk) ==
    IF s.highlighted_area = Absent THEN s
    ELSE IF DispZero(s) THEN Raise(s, "ZeroDivisionError")
    ELSE IF s.tile_width = Absent THEN Raise(s, "AttributeError")
    ELSE
    Bind(DispCoordToSrc(s, loc_disp), LAMBDA loc_src :
    LET tile_x == FloorDiv(loc_src[1], s.tile_width[1])
        tile_y == FloorDiv(loc_src[2], s.tile_length[1])
        area == s.highlighted_area[1]
        cell == <<tile_y, tile_x>>
        on2 == IF value = Absent THEN Toggle(area.on, cell)
               ELSE IF value[1] THEN area.on \cup {cell} ELSE area.on \ {cell}
    IN  IF tile_x < 0 \/ tile_y < 0 THEN s
        ELSE IF tile_x >= area.shape[2] \/ tile_y >= area.shape[1] THEN s
        ELSE Bind([s EXCEPT !.highlighted_area = Some([area EXCEPT !.on = on2])],
                  LAMBDA s1 : ShowCurrentView(s1, zeroOk)))

\* value: Some(TRUE), Some(FALSE) or Absent (None: toggle)
SetHighlightTile(s, loc_disp, value, zeroOk) ==
    IF s.highlighted_area = Absent THEN Raise(s, "ValueError")
    ELSE IF DispZero(s) THEN Raise(s, "ZeroDivisionError")
    ELSE IF s.tile_width = Absent THEN Raise(s, "AttributeError")
    ELSE
    Bind(DispCoordToSrc(s, loc_disp), LAMBDA loc_src :
    LET tile_x == FloorDiv(loc_src[1], s.tile_width[1])
        tile_y == FloorDiv(loc_src[2], s.tile_length[1])
        area == s.highlighted_area[1]
        cell == <<tile_y, tile_x>>
        on2 == IF value = Absent THEN Toggle(area.on, cell)
               ELSE IF value[1] THEN area.on \cup {cell} ELSE area.on \ {cell}
    IN  IF tile_x < 0 \/ tile_y < 0 THEN s
        ELSE IF tile_x >= area.shape[2] \/ tile_y >= area.shape[1] THEN s
        ELSE Bind([s EXCEPT !.highlighted_area = Some([area EXCEPT !.on = on2])],
                  LAMBDA s1 : ShowCurrentView(s1, zeroOk)))

GetHighlightedArea(s) ==
    IF s.highlighted_area = Absent THEN Raise(s, "ValueError") ELSE s

(* ---------------------------- crop export ------------------------------ *)
\* save_crop changes no attribute; the model keeps the exception it raises.
\* writeOk: whether write_to_file succeeds.
SaveCrop(s, disp_selection, writeOk) ==
    IF DispZero(s) THEN Raise(s, "ZeroDivisionError")
    ELSE IF s.src_image = None THEN Raise(s, "AttributeError")
    ELSE
    LET rx1 == QDiv(Q(disp_selection[1]), Q(s.disp[1]))
        ry1 == QDiv(Q(disp_selection[2]), Q(s.disp[2]))
        rx2 == QDiv(Q(disp_selection[3]), Q(s.disp[1]))
        ry2 == QDiv(Q(disp_selection[4]), Q(s.disp[2]))
        src_left == Trunc(QAdd(s.current_view[1], QMul(rx1, ViewW(s))))
        src_top == Trunc(QAdd(s.current_view[2], QMul(ry1, ViewH(s))))
        src_width == Trunc(QMul(QSub(rx2, rx1), ViewW(s)))
        src_height == Trunc(QMul(QSub(ry2, ry1), ViewH(s)))
    IN  IF \/ src_left < 0 \/ src_top < 0 \/ src_width <= 0 \/ src_height <= 0
           \/ src_left + src_width > SrcWidth(s)
           \/ src_top + src_height > SrcHeight(s)
        THEN Raise(s, "Error")
        ELSE IF ~writeOk THEN Raise(s, "Error") ELSE s

(* -------------------------------- open --------------------------------- *)
\* open_image without line 32: the viewport of the previous image is kept
OpenImage_KeepView(s, path, failAt, zeroOk) ==
    IF path \notin GoodFiles THEN Raise(s, "Error")
    ELSE
    Bind([s EXCEPT !.src_image = path], LAMBDA s1 :
    Bind(CreateImageCache(s1, failAt), LAMBDA s2 :
        IF s2.err # None THEN s2 ELSE ShowCurrentView(s2, zeroOk)))

\* failAt: the pyramid level whose resize raises (0: none)
OpenImage(s, path, failAt, zeroOk) ==
    IF path \notin GoodFiles THEN Raise(s, "Error")
    ELSE
    Bind([s EXCEPT !.current_view =
                       <<Q(0), Q(0), Q(FileInfo[path].width),
                         Q(FileInfo[path].height)>>,
                   !.src_image = path], LAMBDA s1 :
    Bind(CreateImageCache(s1, failAt), LAMBDA s2 :
        IF s2.err # None THEN s2 ELSE ShowCurrentView(s2, zeroOk)))

(* ----------------------- inputs of the gestures ------------------------ *)
\* drags of one pixel from (1, 1): none, left, right, up, down
Movements == {<<1, 1, 1, 1>>, <<1, 1, 0, 1>>, <<1, 1, 2, 1>>, <<1, 1, 1, 0>>, <<1, 1, 1, 2>>}
\* rectangles dragged rightwards and downwards between two pointer positions
Selections(d) ==
    {<<a[1], a[2], b[1], b[2]>> :
        <<a, b>> \in {q \in DispPoints(d) \X DispPoints(d) :
                         q[1][1] <= q[2][1] /\ q[1][2] <= q[2][2]}}
\* zoom_in / zoom_out are called with their default factor
ZoomFactors == {Q(2)}
Modes == {Absent, Some(TRUE), Some(FALSE)}
\* pyramid level whose resize raises during open (0: none)
FailLevels == {0, 1}
\* what pyvips resize does with the scale 0 that resize_image_box computes for
\* a display area without extent is not fixed by the source: it may raise
\* (FALSE) or return a 1 x 1 image (TRUE)
ZeroOks == IF disp[1] = 0 \/ disp[2] = 0 THEN BOOLEAN ELSE {TRUE}
SelectSize(selection) == <<Abs(selection[3] - selection[1]), Abs(selection[4] - selection[2])>>

(* ------------------------------ actions -------------------------------- *)
\* SlideViewer.__init__
TkInit ==
    /\ wheel_delta = 0
    /\ scroll_timer = Absent
    /\ start_x = Absent
    /\ start_y = Absent
    /\ select_mode = FALSE

Init ==
    /\ src_image = None
    /\ current_view = <<Q(-1), Q(-1), Q(-1), Q(-1)>>
    /\ image_cache = <<>>
    /\ highlight_mode = FALSE
    /\ highlighted_area = Absent
    /\ tile_width = Absent
    /\ tile_length = Absent
    /\ current_image = Absent
    /\ disp \in DispSizes
    /\ frame = Absent
    /\ last = [op |-> "init", arg |-> <<>>, err |-> None, shown |-> FALSE]
    /\ hist = Absent
    /\ steps = 0
    /\ TkInit

\* a pair starts with zoom_in(c) or set_highlight_tile(p) and is completed by
\* zoom_out(c) resp. set_highlight_tile(p) as the very next call
PairFirst == [zoom_in |-> "zoom_in", set_highlight_tile |-> "set_highlight_tile"]
PairSecond == [zoom_in |-> "zoom_out", set_highlight_tile |-> "set_highlight_tile"]

HistNext(op, arg) ==
    IF /\ hist # Absent
       /\ ~hist[1].done
       /\ op = PairSecond[hist[1].first]
       /\ arg = hist[1].arg
    THEN Some([hist[1] EXCEPT !.done = TRUE])
    ELSE IF op \in DOMAIN PairFirst
         THEN Some([first |-> op, arg |-> arg, done |-> FALSE,
                    view |-> current_view, area |-> highlighted_area])
         ELSE Absent

\* the state the call leaves behind, whether it returned or raised (a session
\* of the model makes at most MaxSteps calls: every action checks that first)
Commit(r, op, arg) ==
    /\ steps' = steps + 1
    /\ src_image' = r.src_image
    /\ current_view' = r.current_view
    /\ image_cache' = r.image_cache
    /\ highlight_mode' = r.highlight_mode
    /\ highlighted_area' = r.highlighted_area
    /\ tile_width' = r.tile_width
    /\ tile_length' = r.tile_length
    /\ current_image' = r.current_image
    /\ frame' = r.frame
    /\ disp' = disp
    /\ last' = [op |-> op, arg |-> arg, err |-> r.err, shown |-> r.shown]
    /\ hist' = HistNext(op, arg)
    /\ UNCHANGED tkgui

open_image ==
    /\ steps < MaxSteps
    /\ \E path \in Paths, failAt \in FailLevels, zeroOk \in ZeroOks :
           \E s \in {St} : \E r \in {OpenImage(s, path, failAt, zeroOk)} :
               Commit(r, "open_image", <<path>>)

drag ==
    /\ steps < MaxSteps
    /\ \E movement \in Movements, zeroOk \in ZeroOks :
           \E s \in {St} : \E r \in {Drag(s, movement, zeroOk)} :
               Commit(r, "drag", <<>>)

zoom_in ==
    /\ steps < MaxSteps
    /\ \E center \in DispPoints(disp), factor \in ZoomFactors, zeroOk \in ZeroOks :
           \E s \in {St} : \E r \in {ZoomIn(s, center, factor, zeroOk)} :
               Commit(r, "zoom_in", center)

zoom_out ==
    /\ steps < MaxSteps
    /\ \E center \in DispPoints(disp), factor \in ZoomFactors, zeroOk \in ZeroOks :
           \E s \in {St} : \E r \in {ZoomOut(s, center, factor, zeroOk)} :
               Commit(r, "zoom_out", center)

zoom_select ==
    /\ steps < MaxSteps
    /\ \E selection \in Selections(disp), zeroOk \in ZeroOks :
           \E s \in {St} : \E r \in {ZoomSelect(s, selection, zeroOk)} :
               Commit(r, "zoom_select", SelectSize(selection))

redraw_image_resize ==
    /\ steps < MaxSteps
    /\ \E zeroOk \in ZeroOks :
           \E s \in {St} : \E r \in {RedrawImageResize(s, zeroOk)} :
               Commit(r, "redraw_image_resize", <<>>)

set_highlight_mode ==
    /\ steps < MaxSteps
    /\ \E mode \in Modes, zeroOk \in ZeroOks :
           \E s \in {St} : \E r \in {SetHighlightMode(s, mode, zeroOk)} :
               Commit(r, "set_highlight_mode", <<>>)

\* the front-ends toggle: value is None
set_highlight_tile ==
    /\ steps < MaxSteps
    /\ \E loc_disp \in DispPoints(disp), zeroOk \in ZeroOks :
           \E s \in {St} : \E r \in {SetHighlightTile(s, loc_disp, Absent, zeroOk)} :
               Commit(r, "set_highlight_tile", loc_disp)

set_highlight_tile_value ==
    /\ steps < MaxSteps
    /\ \E loc_disp \in DispPoints(disp), value \in BOOLEAN, zeroOk \in ZeroOks :
           \E s \in {St} : \E r \in {SetHighlightTile(s, loc_disp, Some(value), zeroOk)} :
               Commit(r, "set_highlight_tile_value", <<>>)

get_highlighted_area ==
    /\ steps < MaxSteps
    /\ \E s \in {St} : \E r \in {GetHighlightedArea(s)} :
           Commit(r, "get_highlighted_area", <<>>)

save_crop ==
    /\ steps < MaxSteps
    /\ \E disp_selection \in Selections(disp), writeOk \in BOOLEAN :
           \E s \in {St} : \E r \in {SaveCrop(s, disp_selection, writeOk)} :
               Commit(r, "save_crop", <<>>)

\* the window is laid out or resized: get_display_area_size reports d from now on
display_resized ==
    \E d \in DispSizes \ {disp} :
        /\ steps < MaxSteps
        /\ steps' = steps + 1
        /\ disp' = d
        /\ last' = [op |-> "display_resized", arg |-> <<>>, err |-> None, shown |-> FALSE]
        /\ hist' = Absent
        /\ UNCHANGED <<core, frame, tkgui>>

Next ==
    \/ open_image
    \/ drag
    \/ zoom_in
    \/ zoom_out
    \/ zoom_select
    \/ redraw_image_resize
    \/ set_highlight_mode
    \/ set_highlight_tile
    \/ set_highlight_tile_value
    \/ get_highlighted_area
    \/ save_crop
    \/ display_resized

Spec == Init /\ [][Next]_vars

\* sessions on whole-slide sized images: the window is laid out once, each
\* slide is viewed on a display area of SlideSessions (the 4:3 slide fills
\* 800 x 600 and is letterboxed on 1000 x 1000), and every pyramid resize
\* succeeds
SlideSessions == {<<"c", <<1000, 1000>>>>, <<"d", <<800, 600>>>>,
                  <<"d", <<1000, 1000>>>>}
SlideDisplays == {x[2] : x \in SlideSessions}

InitSlide ==
    /\ src_image = None
    /\ current_view = <<Q(-1), Q(-1), Q(-1), Q(-1)>>
    /\ image_cache = <<>>
    /\ highlight_mode = FALSE
    /\ highlighted_area = Absent
    /\ tile_width = Absent
    /\ tile_length = Absent
    /\ current_image = Absent
    /\ disp \in SlideDisplays
    /\ frame = Absent
    /\ last = [op |-> "init", arg |-> <<>>, err |-> None, shown |-> FALSE]
    /\ hist = Absent
    /\ steps = 0
    /\ TkInit

open_slide ==
    /\ steps < MaxSteps
    /\ \E path \in {f \in SlideFiles : <<f, disp>> \in SlideSessions} :
           \E s \in {St} : \E r \in {OpenImage(s, path, 0, TRUE)} :
               Commit(r, "open_image", <<path>>)

NextSlide ==
    \/ open_slide
    \/ drag
    \/ zoom_in
    \/ zoom_out
    \/ zoom_select
    \/ redraw_image_resize
    \/ set_highlight_mode
    \/ set_highlight_tile

SpecSlide == InitSlide /\ [][NextSlide]_vars

\* sessions whose display area always has extent (the window is laid out
\* before the first call and never collapses)
LaidOutSizes == {d \in DispSizes : d[1] # 0 /\ d[2] # 0}

InitLaidOut == Init /\ disp \in LaidOutSizes

display_resized_laid_out == display_resized /\ disp' \in LaidOutSizes

NextLaidOut ==
    \/ open_image
    \/ drag
    \/ zoom_in
    \/ zoom_out
    \/ zoom_select
    \/ redraw_image_resize
    \/ set_highlight_mode
    \/ set_highlight_tile
    \/ set_highlight_tile_value
    \/ get_highlighted_area
    \/ save_crop
    \/ display_resized_laid_out

SpecLaidOut == InitLaidOut /\ [][NextLaidOut]_vars

(* ============================ properties =============================== *)
Loaded == src_image # None
DisplayZero == disp[1] = 0 \/ disp[2] = 0
FullView(path) == <<Q(0), Q(0), Q(FileInfo[path].width), Q(FileInfo[path].height)>>
ToggleOps == {"set_highlight_tile", "set_highlight_tile_value"}

\* C1: on a loaded image of size W x H the viewport always satisfies
\* 0 <= left < right <= W and 0 <= top < bottom <= H.
C1_ViewportInBounds ==
    Loaded =>
        /\ QLe(Q(0), current_view[1])
        /\ QLt(current_view[1], current_view[3])
        /\ QLe(current_view[3], Q(FileInfo[src_image].width))
        /\ QLe(Q(0), current_view[2])
        /\ QLt(current_view[2], current_view[4])
        /\ QLe(current_view[4], Q(FileInfo[src_image].height))

\* the grid _init_highlighted_tiles creates for a file, nothing toggled
FreshGrid(path) ==
    IF FileInfo[path].is_tiled
    THEN Some([shape |-> <<CeilDiv(FileInfo[path].height, FileInfo[path].TileLength),
                            CeilDiv(FileInfo[path].width, FileInfo[path].TileWidth)>>,
               on |-> {}])
    ELSE Some([shape |-> <<1, 1>>, on |-> {}])

\* C2: after a successful open_image every pyramid level comes from the new
\* image, and nothing of the previous image's highlight grid remains: the grid
\* is uninitialized, or (when the open's own render ran in highlight mode) it
\* is the untouched grid of the new image.
C2_OpenDiscardsPrevious ==
    (last.op = "open_image" /\ last.err = None) =>
        /\ \A i \in 1..Len(image_cache) : image_cache[i].src = src_image
        /\ \/ highlighted_area = Absent
           \/ highlight_mode /\ highlighted_area = FreshGrid(src_image)

\* C3: an open_image that fails because the file cannot be decoded or a
\* pyramid level cannot be resampled leaves the source image, the viewport,
\* the pyramid and the highlight grid as they were.
C3_OpenAllOrNothing ==
    [][(~DisplayZero /\ last'.op = "open_image" /\ last'.err = "Error") =>
           UNCHANGED <<src_image, current_view, image_cache, highlighted_area>>]_vars

\* C4: after a successful open_image of a W x H image the viewport is exactly
\* (0, 0, W, H) of the image that was opened.
C4_OpenResetsViewport ==
    (last.op = "open_image" /\ last.err = None) =>
        /\ src_image = last.arg[1]
        /\ current_view = FullView(src_image)

\* a successful open that replaced an image on which highlighting had been set up
C4_Witness ==
    /\ last.op = "open_image"
    /\ last.err = None
    /\ steps >= 3
    /\ highlighted_area # Absent

Within1(a, b) == QLe(QSub(a, b), Q(1)) /\ QLe(QSub(b, a), Q(1))

\* C5: zoom_in(c, 2) immediately followed by zoom_out(c, 2) on a loaded image
\* leaves each viewport edge within 1 source pixel of its value before the pair.
C5_ZoomRoundTrip ==
    (/\ hist # Absent
     /\ hist[1].first = "zoom_in"
     /\ hist[1].done
     /\ Loaded) =>
        \A i \in 1..4 : Within1(current_view[i], hist[1].view[i])

\* C6: set_highlight_tile and get_highlighted_area on an uninitialized grid
\* raise ValueError and change nothing.
C6_UninitializedRaises ==
    [][(/\ highlighted_area = Absent
        /\ last'.op \in ToggleOps \cup {"get_highlighted_area"}) =>
           (last'.err = "ValueError" /\ UNCHANGED <<core, disp, frame>>)]_vars

\* a toggle was refused on a loaded image whose grid had not been initialized
C6_Witness ==
    /\ last.op = "set_highlight_tile"
    /\ last.err = "ValueError"
    /\ Loaded
    /\ highlighted_area = Absent

\* C7: two consecutive set_highlight_tile(p) calls without a value at the same
\* point leave every cell of an initialized grid as it was before the two.
C7_DoubleToggleRestores ==
    (/\ hist # Absent
     /\ hist[1].first = "set_highlight_tile"
     /\ hist[1].done
     /\ hist[1].area # Absent) =>
        highlighted_area = hist[1].area

\* the second toggle of a pair has flipped a cell and rendered
C7_Witness ==
    /\ hist # Absent
    /\ hist[1].first = "set_highlight_tile"
    /\ hist[1].done
    /\ hist[1].area # Absent
    /\ last.err = None
    /\ last.shown

\* C8: once the grid exists, pan, zoom, zoom_select, resize, a highlight-mode
\* switch (each with its re-render) and the queries leave every cell unchanged.
C8_CellsChangeOnlyByToggle ==
    [][(/\ highlighted_area # Absent
        /\ last'.op \notin ToggleOps \cup {"open_image"}) =>
           highlighted_area' = highlighted_area]_vars

\* a gesture other than a toggle has re-rendered a grid with a highlighted cell
C8_Witness ==
    /\ highlighted_area # Absent
    /\ highlighted_area[1].on # {}
    /\ highlight_mode
    /\ last.op \in {"drag", "zoom_in", "zoom_out", "zoom_select",
                    "redraw_image_resize", "set_highlight_mode"}
    /\ last.shown

\* C9: with a display area of zero width or height, pan, zoom_in, zoom_out,
\* zoom_select, set_highlight_tile and save_crop on a loaded image raise
\* nothing and leave the viewport unchanged.
C9_ZeroDisplayNoOp ==
    [][(/\ DisplayZero
        /\ Loaded
        /\ last'.op \in {"drag", "zoom_in", "zoom_out", "zoom_select",
                         "set_highlight_tile", "save_crop"}) =>
           (last'.err = None /\ current_view' = current_view)]_vars

\* C10: zoom_select with a selection of zero width or zero height (on a loaded
\* image and a display area with extent) raises nothing and leaves the
\* viewport unchanged.
C10_DegenerateSelectNoOp ==
    [][(/\ Loaded
        /\ ~DisplayZero
        /\ last'.op = "zoom_select"
        /\ (last'.arg[1] = 0 \/ last'.arg[2] = 0)) =>
           (last'.err = None /\ current_view' = current_view)]_vars

\* C11: zoom_select on the selection (0, 0, displayWidth, displayHeight) of a
\* loaded image leaves each viewport edge within 1 source pixel of its value
\* before the call.
C11_FullSelectNoOp ==
    [][(/\ Loaded
        /\ ~DisplayZero
        /\ last'.op = "zoom_select"
        /\ last'.arg = disp) =>
           \A i \in 1..4 : Within1(current_view'[i], current_view[i])]_vars

DispCentre == <<disp[1] \div 2, disp[2] \div 2>>
\* |a - b| <= tol
Near(a, b, tol) == QLe(QSub(a, b), tol) /\ QLe(QSub(b, a), tol)
Centre(v) == <<Half(QAdd(v[1], v[3])), Half(QAdd(v[2], v[4]))>>

\* C12: zoom_in at the display centre by factor 2 on a loaded image yields a
\* viewport of width old_width/2 and height old_height/2 (each within 1 px of
\* rounding) whose centre is the source point the old viewport was centred on
\* (within 2 px of rounding).
C12_ZoomInCentre ==
    [][(/\ Loaded
        /\ ~DisplayZero
        /\ last'.op = "zoom_in"
        /\ last'.arg = DispCentre) =>
           /\ Near(QSub(current_view'[3], current_view'[1]),
                   Half(QSub(current_view[3], current_view[1])), Q(1))
           /\ Near(QSub(current_view'[4], current_view'[2]),
                   Half(QSub(current_view[4], current_view[2])), Q(1))
           /\ Near(Centre(current_view')[1], Centre(current_view)[1], Q(2))
           /\ Near(Centre(current_view')[2], Centre(current_view)[2], Q(2))]_vars

\* the scenario of C12: the 20000 x 15000 slide freshly opened on 800 x 600,
\* zoomed in at the display centre
C12_Scenario ==
    (/\ src_image = "d"
     /\ disp = <<800, 600>>
     /\ steps = 2
     /\ last.op = "zoom_in"
     /\ last.arg = DispCentre) =>
        current_view = <<Q(5000), Q(3750), Q(15000), Q(11250)>>

\* the viewport has the aspect ratio of the display area: the rendered frame
\* fills the display area
ViewFillsDisplay ==
    QMul(QSub(current_view[3], current_view[1]), Q(disp[2]))
        = QMul(QSub(current_view[4], current_view[2]), Q(disp[1]))

\* C12 (amended): when the viewport fills the display area, zoom_in at the
\* display centre by factor 2 yields a viewport of width old_width/2 and height
\* old_height/2 (within 1 px) centred on the old centre (within 2 px); the
\* 20000 x 15000 slide freshly opened on 800 x 600 gets the viewport
\* (5000, 3750, 15000, 11250).
C12_ZoomInCentreFilled ==
    /\ []C12_Scenario
    /\ [][(/\ Loaded
           /\ ~DisplayZero
           /\ ViewFillsDisplay
           /\ last'.op = "zoom_in"
           /\ last'.arg = DispCentre) =>
              /\ Near(QSub(current_view'[3], current_view'[1]),
                      Half(QSub(current_view[3], current_view[1])), Q(1))
              /\ Near(QSub(current_view'[4], current_view'[2]),
                      Half(QSub(current_view[4], current_view[2])), Q(1))
              /\ Near(Centre(current_view')[1], Centre(current_view)[1], Q(2))
              /\ Near(Centre(current_view')[2], Centre(current_view)[2], Q(2))]_vars

\* the 20000 x 15000 slide, freshly opened on 800 x 600, has been zoomed in at
\* the display centre
C12_Witness ==
    /\ src_image = "d"
    /\ disp = <<800, 600>>
    /\ steps = 2
    /\ last.op = "zoom_in"
    /\ last.arg = DispCentre
    /\ last.shown
    /\ current_view = <<Q(5000), Q(3750), Q(15000), Q(11250)>>

\* widths and heights of the pyramid levels, level 0 first
LevelSizes == [i \in 1..Len(image_cache) |->
                  <<image_cache[i].width, image_cache[i].height>>]

C14_PyramidShape ==
    (last.op = "open_image" /\ last.err = None) =>
        /\ Len(image_cache) >= 2
        /\ LevelSizes[1] = <<FileInfo[src_image].width, FileInfo[src_image].height>>
        /\ \A i \in 2..Len(image_cache) :
              /\ LevelSizes[i][1] = Trunc(QDiv(Q(LevelSizes[i - 1][1]), Q(DS_SCALE)))
              /\ LevelSizes[i][2] = Trunc(QDiv(Q(LevelSizes[i - 1][2]), Q(DS_SCALE)))
              /\ LevelSizes[i][1] < LevelSizes[i - 1][1]
              /\ LevelSizes[i][2] < LevelSizes[i - 1][2]

\* the level show_current_view renders the current viewport from
BestLevel == GetBestCacheLevel(St, disp[1], disp[2])
\* the scale the viewport needs on the display area
RequiredScale ==
    QMax(QDiv(QSub(current_view[3], current_view[1]), Q(disp[1])),
         QDiv(QSub(current_view[4], current_view[2]), Q(disp[2])))
AcceptableLevels ==
    {k \in 0..(Len(image_cache) - 1) : QLe(Q(Pow(DS_SCALE, k)), RequiredScale)}

\* C15: for a display area with extent _get_best_cache_level returns the
\* highest existing level L with DS_SCALE^L <= max(viewportWidth/displayWidth,
\* viewportHeight/displayHeight), and level 0 when no level qualifies; an
\* 8000 x 8000 viewport on a 1000 x 1000 display gets level 1.
C15_BestLevel ==
    (Loaded /\ ~DisplayZero /\ Len(image_cache) > 0) =>
        /\ \/ AcceptableLevels = {} /\ BestLevel = 0
           \/ /\ BestLevel \in AcceptableLevels
              /\ \A k \in AcceptableLevels : k <= BestLevel
        /\ (/\ disp = <<1000, 1000>>
            /\ QSub(current_view[3], current_view[1]) = Q(8000)
            /\ QSub(current_view[4], current_view[2]) = Q(8000)
            /\ Len(image_cache) > 2) => BestLevel = 1

\* an 8000 x 8000 viewport of a source with four levels has been rendered on a
\* 1000 x 1000 display
C15_Witness ==
    /\ Loaded
    /\ disp = <<1000, 1000>>
    /\ QSub(current_view[3], current_view[1]) = Q(8000)
    /\ QSub(current_view[4], current_view[2]) = Q(8000)
    /\ Len(image_cache) > 2
    /\ last.shown

Untiled == Loaded /\ ~FileInfo[src_image].is_tiled

\* C16: for an untiled source image, enabling highlight mode initializes a
\* 1 x 1 highlight grid, and every later render and set_highlight_tile call
\* completes without error (on a display area with extent).
C16_UntiledHighlight ==
    (Untiled /\ ~DisplayZero /\ highlight_mode
        /\ last.op \in ToggleOps \cup {"set_highlight_mode", "drag", "zoom_in",
                                       "zoom_out", "redraw_image_resize"}) =>
        /\ last.err = None
        /\ highlighted_area = Some([shape |-> <<1, 1>>, on |-> {}])
           \/ highlighted_area = Some([shape |-> <<1, 1>>, on |-> {<<0, 0>>}])

\* the size of the frame handed to show_image by the last call
FrameSize == frame[1].size

GestureOps == {"drag", "zoom_in", "zoom_out", "zoom_select", "redraw_image_resize",
               "set_highlight_mode", "set_highlight_tile", "set_highlight_tile_value"}

\* C18: in the Loaded state every gesture (pan, zoom, select, resize,
\* highlight-mode change, tile toggle) keeps the session Loaded and re-runs
\* the render pipeline: before the call returns, show_image has been called
\* with a frame of the resulting viewport.
C18_GestureRenders ==
    [][(Loaded /\ last'.op \in GestureOps) =>
           /\ src_image' = src_image
           /\ last'.err = None
           /\ last'.shown
           /\ frame' # Absent
           /\ frame'[1].view = current_view']_vars

\* C19: after every mutation of the viewport (open, pan, zoom, select, resize,
\* each followed by clamping) all four coordinates left, top, right and bottom
\* are integers.
C19_IntegerViewport ==
    Loaded => \A i \in 1..4 : current_view[i][2] = 1

(* ---------------- fix_boundaries on arbitrary rectangles --------------- *)
\* how far outside the image the rectangles handed to fix_boundaries reach
ClampMargin == 2

\* the handler as __init__ leaves it, on a display area of size d
Fresh(d) ==
    [src_image |-> None, current_view |-> <<Q(-1), Q(-1), Q(-1), Q(-1)>>,
     image_cache |-> <<>>, highlight_mode |-> FALSE,
     highlighted_area |-> Absent, tile_width |-> Absent,
     tile_length |-> Absent, current_image |-> Absent,
     disp |-> d, frame |-> Absent, err |-> None, shown |-> FALSE]

Opened(path, d) == OpenImage(Fresh(d), path, 0, TRUE)

\* the rectangles a caller may have stored in current_view before it calls
\* fix_boundaries: left <= right, top <= bottom, up to ClampMargin outside
ClampRects(path) ==
    {<<Q(l), Q(t), Q(r), Q(b)>> :
        <<l, t, r, b>> \in
            {x \in ((-ClampMargin)..(FileInfo[path].width + ClampMargin))
                   \X ((-ClampMargin)..(FileInfo[path].height + ClampMargin))
                   \X ((-ClampMargin)..(FileInfo[path].width + ClampMargin))
                   \X ((-ClampMargin)..(FileInfo[path].height + ClampMargin)) :
                x[1] <= x[3] /\ x[2] <= x[4]}}

InitClamp ==
    /\ disp = <<MaxDisp, MaxDisp>>
    /\ src_image \in SmallFiles
    /\ image_cache = Opened(src_image, disp).image_cache
    /\ current_image = Opened(src_image, disp).current_image
    /\ frame = Opened(src_image, disp).frame
    /\ current_view \in ClampRects(src_image)
    /\ highlight_mode = FALSE
    /\ highlighted_area = Absent
    /\ tile_width = Absent
    /\ tile_length = Absent
    /\ last = [op |-> "set_view", arg |-> <<>>, err |-> None, shown |-> FALSE]
    /\ hist = Absent
    /\ steps = 0
    /\ TkInit

fix_boundaries ==
    /\ steps < MaxSteps
    /\ \E s \in {St} : \E r \in {FixBoundaries(s)} :
           Commit(r, "fix_boundaries", current_view)

NextClamp == fix_boundaries

SpecClamp == InitClamp /\ [][NextClamp]_vars

\* what clamping the interval [lo, hi] into [0, size] gives when the length
\* is kept as far as it fits: <<lo', hi'>>
ClampedAxis(lo, hi, size) ==
    IF QLt(size, QSub(hi, lo)) THEN <<Q(0), size>>
    ELSE IF QLt(size, hi) THEN <<QSub(size, QSub(hi, lo)), size>>
    ELSE IF QLt(lo, Q(0)) THEN <<Q(0), QSub(hi, lo)>>
    ELSE <<lo, hi>>

\* C20: fix_boundaries applied to a rectangle whose width and height do not
\* exceed the image's returns a rectangle of the same width and height that
\* lies inside the image (0 <= left, right <= W, 0 <= top, bottom <= H); the
\* bottom/height axis is handled exactly as the right/width axis; a rectangle
\* larger than the image on an axis is shrunk to the image on that axis only.
C20_ClampKeepsSize ==
    (last.op = "fix_boundaries") =>
        LET W == Q(FileInfo[src_image].width)
            H == Q(FileInfo[src_image].height)
            w == QSub(last.arg[3], last.arg[1])
            h == QSub(last.arg[4], last.arg[2])
        IN  /\ last.err = None
            /\ <<current_view[1], current_view[3]>> = ClampedAxis(last.arg[1], last.arg[3], W)
            /\ <<current_view[2], current_view[4]>> = ClampedAxis(last.arg[2], last.arg[4], H)
            /\ QLe(Q(0), current_view[1]) /\ QLe(current_view[3], W)
            /\ QLe(Q(0), current_view[2]) /\ QLe(current_view[4], H)
            /\ QLe(w, W) => QSub(current_view[3], current_view[1]) = w
            /\ QLe(h, H) => QSub(current_view[4], current_view[2]) = h
            /\ QLt(W, w) => (current_view[1] = Q(0) /\ current_view[3] = W)
            /\ QLt(H, h) => (current_view[2] = Q(0) /\ current_view[4] = H)

\* a rectangle that fits the image but reached below its bottom edge and
\* beyond its left edge has been moved inside
C20_Witness ==
    /\ last.op = "fix_boundaries"
    /\ QLt(Q(FileInfo[src_image].height), last.arg[4])
    /\ QLt(last.arg[1], Q(0))
    /\ QLe(QSub(last.arg[4], last.arg[2]), Q(FileInfo[src_image].height))
    /\ QLe(QSub(last.arg[3], last.arg[1]), Q(FileInfo[src_image].width))
    /\ current_view[4] = Q(FileInfo[src_image].height)
    /\ current_view[1] = Q(0)
    /\ QSub(current_view[4], current_view[2]) = QSub(last.arg[4], last.arg[2])
    /\ QSub(current_view[3], current_view[1]) = QSub(last.arg[3], last.arg[1])

\* C21: drag with display movement (dx, dy) subtracts (dx*s, dy*s), s being
\* the current display-to-source scale, from all four viewport coordinates
\* and then clamps: a pan never changes the viewport's width or height, and a
\* pointer movement to the right or down never increases left or top.
C21_PanKeepsSize ==
    [][(Loaded /\ ~DisplayZero /\ last'.op = "drag") =>
           /\ QSub(current_view'[3], current_view'[1]) = QSub(current_view[3], current_view[1])
           /\ QSub(current_view'[4], current_view'[2]) = QSub(current_view[4], current_view[2])
           /\ \A movement \in Movements :
                 (current_view' = Drag(St, movement, TRUE).current_view) =>
                     /\ (movement[3] >= movement[1]) => QLe(current_view'[1], current_view[1])
                     /\ (movement[4] >= movement[2]) => QLe(current_view'[2], current_view[2])]_vars

\* the 4 x 2 image on a 4 x 4 display, zoomed in to (0, 0, 2, 2), has been
\* dragged one display pixel to the left: half a source pixel
C21_Witness ==
    /\ src_image = "b"
    /\ disp = <<4, 4>>
    /\ steps = 3
    /\ last.op = "drag"
    /\ last.shown
    /\ current_view = <<<<1, 2>>, Q(0), <<5, 2>>, Q(2)>>

\* the display-to-source scale of the last rendered frame, as
\* redraw_image_resize computes it from the size of current_image
FrameScale ==
    QMax(QDiv(QSub(current_view[3], current_view[1]), Q(current_image[1])),
         QDiv(QSub(current_view[4], current_view[2]), Q(current_image[2])))
\* the rectangle redraw_image_resize hands to fix_boundaries
ResizedRect ==
    LET cx == Half(QAdd(current_view[1], current_view[3]))
        cy == Half(QAdd(current_view[2], current_view[4]))
        hw == Half(QMul(Q(disp[1]), FrameScale))
        hh == Half(QMul(Q(disp[2]), FrameScale))
    IN  <<Trunc(QSub(cx, hw)), Trunc(QSub(cy, hh)),
          Trunc(QAdd(cx, hw)), Trunc(QAdd(cy, hh))>>
\* fix_boundaries has nothing to do on that rectangle
ResizedRectInside ==
    /\ 0 <= ResizedRect[1] /\ ResizedRect[3] <= FileInfo[src_image].width
    /\ 0 <= ResizedRect[2] /\ ResizedRect[4] <= FileInfo[src_image].height
\* redraw_image_resize is called on a loaded image that has been rendered
Redrawing ==
    /\ Loaded
    /\ ~DisplayZero
    /\ current_image # Absent
    /\ last'.op = "redraw_image_resize"

\* the part of C22 about the new viewport: when clamping does not intervene
\* it has width newDisplayWidth*scale and height newDisplayHeight*scale,
\* within two source pixels (each edge is truncated), around the same centre,
\* within one source pixel
C22_ResizeKeepsScale ==
    [][(Redrawing /\ ResizedRectInside) =>
           /\ current_view' = <<Q(ResizedRect[1]), Q(ResizedRect[2]),
                                Q(ResizedRect[3]), Q(ResizedRect[4])>>
           /\ Near(QSub(current_view'[3], current_view'[1]),
                   QMul(Q(disp[1]), FrameScale), Q(2))
           /\ Near(QSub(current_view'[4], current_view'[2]),
                   QMul(Q(disp[2]), FrameScale), Q(2))
           /\ Near(Centre(current_view')[1], Centre(current_view)[1], Q(1))
           /\ Near(Centre(current_view')[2], Centre(current_view)[2], Q(1))]_vars

\* the part of C22 about an unchanged display size: the call before
\* redraw_image_resize rendered on the same display area
C22_SameSizeUnchanged ==
    [][(Redrawing /\ last.shown) =>
           \A i \in 1..4 : Within1(current_view'[i], current_view[i])]_vars

InitResize ==
    /\ disp \in LaidOutSizes
    /\ src_image \in SmallFiles
    /\ current_view = Opened(src_image, disp).current_view
    /\ image_cache = Opened(src_image, disp).image_cache
    /\ current_image = Opened(src_image, disp).current_image
    /\ frame = Opened(src_image, disp).frame
    /\ highlight_mode = FALSE
    /\ highlighted_area = Absent
    /\ tile_width = Absent
    /\ tile_length = Absent
    /\ last = [op |-> "open_image", arg |-> <<src_image>>, err |-> None, shown |-> TRUE]
    /\ hist = Absent
    /\ steps = 0
    /\ TkInit

NextResize ==
    \/ drag
    \/ zoom_in
    \/ zoom_out
    \/ redraw_image_resize
    \/ display_resized_laid_out

SpecResize == InitResize /\ [][NextResize]_vars

MaxEvents == 6
\* where the wheel is turned, where the pointer is pressed, where motion and
\* release events report it
WheelPoints == {DispCentre}
PressPoints == {<<1, 1>>}
MotionPoints == {<<0, 1>>, <<2, 1>>}

\* a timer created with after(): the callback, its argument, and whether it
\* is still due (neither run nor cancelled)
Timer(cb, arg) == [cb |-> cb, arg |-> arg, pending |-> TRUE]
TimerPending == scroll_timer # Absent /\ scroll_timer[1].pending
\* an event can arrive after a pause of 250 ms or more only while no timer
\* is due, for a timer that is due runs within its delay
LateGaps == IF TimerPending THEN {FALSE} ELSE BOOLEAN

\* _on_mouse_scroll with the direction of the tick ignored
WheelCount_UpOnly(delta, up) == delta + 1

\* lines 171-174 of _on_mouse_scroll
WheelCount(delta, up) == IF up THEN delta + 1 ELSE delta - 1

\* 2 ** wheel_delta
ScrollRatio(delta) == IF delta >= 0 THEN Q(Pow(2, delta)) ELSE <<1, Pow(2, -delta)>>

\* the exception a callback of the core leaves in Tk: its own, or the
\* AttributeError of gui.show_statistics, which SlideViewer does not have
TkErr(r) ==
    IF r.err # None THEN r.err
    ELSE IF r.shown THEN "AttributeError"
    ELSE None

\* the wheel ticks of the running burst: n up, m down, base the value of
\* wheel_delta when the burst began; when _handle_scroll_zoom has run for the
\* burst, whether it called the core, with which ratio, and what it left in
\* wheel_delta
BurstNext(up, late) ==
    IF hist = Absent \/ late \/ hist[1].done
    THEN Some([n |-> IF up THEN 1 ELSE 0, m |-> IF up THEN 0 ELSE 1,
               base |-> wheel_delta, done |-> FALSE, called |-> FALSE,
               ratio |-> Q(1), left |-> 0])
    ELSE Some([hist[1] EXCEPT !.n = IF up THEN @ + 1 ELSE @,
                              !.m = IF up THEN @ ELSE @ + 1])

BurstDone(called, ratio, left) ==
    IF hist = Absent \/ hist[1].done THEN hist
    ELSE Some([hist[1] EXCEPT !.done = TRUE, !.called = called,
                              !.ratio = ratio, !.left = left])

\* an event or callback that does not reach the core
TkOnly(op) ==
    /\ steps' = steps + 1
    /\ last' = [op |-> op, arg |-> <<>>, err |-> None, shown |-> FALSE]
    /\ UNCHANGED <<core, disp, frame>>

\* a callback that has called the core
TkCall(r, op, arg) ==
    /\ steps' = steps + 1
    /\ src_image' = r.src_image
    /\ current_view' = r.current_view
    /\ image_cache' = r.image_cache
    /\ highlight_mode' = r.highlight_mode
    /\ highlighted_area' = r.highlighted_area
    /\ tile_width' = r.tile_width
    /\ tile_length' = r.tile_length
    /\ current_image' = r.current_image
    /\ frame' = r.frame
    /\ disp' = disp
    /\ last' = [op |-> op, arg |-> arg, err |-> TkErr(r), shown |-> r.shown]

on_mouse_scroll ==
    /\ steps < MaxEvents
    /\ \E up \in BOOLEAN, pos \in WheelPoints, late \in LateGaps :
           /\ wheel_delta' = WheelCount(wheel_delta, up)
           /\ scroll_timer' = Some(Timer("_handle_scroll_zoom", pos))
           /\ hist' = BurstNext(up, late)
    /\ TkOnly("_on_mouse_scroll")
    /\ UNCHANGED <<start_x, start_y, select_mode>>

handle_scroll_zoom ==
    /\ steps < MaxEvents
    /\ TimerPending
    /\ scroll_timer[1].cb = "_handle_scroll_zoom"
    /\ scroll_timer' = Some([scroll_timer[1] EXCEPT !.pending = FALSE])
    /\ IF wheel_delta = 0
       THEN /\ TkOnly("_handle_scroll_zoom")
            /\ hist' = BurstDone(FALSE, Q(1), wheel_delta)
            /\ UNCHANGED wheel_delta
       ELSE /\ wheel_delta' = 0
            /\ hist' = BurstDone(TRUE, ScrollRatio(wheel_delta), 0)
            /\ \E s \in {St} :
                   \E r \in {ZoomIn(s, scroll_timer[1].arg, ScrollRatio(wheel_delta), TRUE)} :
                       TkCall(r, "zoom_in", <<scroll_timer[1].arg, ScrollRatio(wheel_delta)>>)
    /\ UNCHANGED <<start_x, start_y, select_mode>>

on_mouse_down ==
    /\ steps < MaxEvents
    /\ \E pos \in PressPoints :
           /\ start_x' = Some(pos[1])
           /\ start_y' = Some(pos[2])
    /\ TkOnly("_on_mouse_down")
    /\ UNCHANGED <<wheel_delta, scroll_timer, select_mode, hist>>

on_mouse_drag ==
    /\ steps < MaxEvents
    /\ \E pos \in MotionPoints :
           IF start_x = Absent \/ select_mode
           THEN UNCHANGED scroll_timer
           ELSE scroll_timer' =
                    Some(Timer("_handle_drag", <<start_x[1], start_y[1], pos[1], pos[2]>>))
    /\ TkOnly("_on_mouse_drag")
    /\ UNCHANGED <<wheel_delta, start_x, start_y, select_mode, hist>>

handle_drag ==
    /\ steps < MaxEvents
    /\ TimerPending
    /\ scroll_timer[1].cb = "_handle_drag"
    /\ scroll_timer' = Some([scroll_timer[1] EXCEPT !.pending = FALSE])
    /\ \E s \in {St} : \E r \in {Drag(s, scroll_timer[1].arg, TRUE)} :
           /\ TkCall(r, "drag", <<>>)
           /\ IF TkErr(r) = None
              THEN /\ start_x' = Some(scroll_timer[1].arg[3])
                   /\ start_y' = Some(scroll_timer[1].arg[4])
              ELSE UNCHANGED <<start_x, start_y>>
    /\ UNCHANGED <<wheel_delta, select_mode, hist>>

on_mouse_up ==
    /\ steps < MaxEvents
    /\ \E pos \in MotionPoints :
           IF select_mode /\ start_x # Absent
           THEN \E s \in {St} :
                    \E r \in {ZoomSelect(s, <<start_x[1], start_y[1], pos[1], pos[2]>>, TRUE)} :
                        /\ TkCall(r, "zoom_select", <<>>)
                        /\ IF TkErr(r) = None
                           THEN start_x' = Absent /\ start_y' = Absent
                           ELSE UNCHANGED <<start_x, start_y>>
           ELSE /\ TkOnly("_on_mouse_up")
                /\ start_x' = Absent
                /\ start_y' = Absent
    /\ UNCHANGED <<wheel_delta, scroll_timer, select_mode, hist>>

handle_select_mode ==
    /\ steps < MaxEvents
    /\ select_mode' = ~select_mode
    /\ TkOnly("_handle_select_mode")
    /\ UNCHANGED <<wheel_delta, scroll_timer, start_x, start_y, hist>>

\* the 8 x 8 image is open on the largest display area
InitTk ==
    /\ InitResize
    /\ src_image = "a"
    /\ disp = <<MaxDisp, MaxDisp>>

NextTk ==
    \/ on_mouse_scroll
    \/ handle_scroll_zoom
    \/ on_mouse_down
    \/ on_mouse_drag
    \/ handle_drag
    \/ on_mouse_up
    \/ handle_select_mode

SpecTk == InitTk /\ [][NextTk]_vars

\* the outcome of a burst whose timer has run
BurstOutcome ==
    /\ hist[1].n = hist[1].m => ~hist[1].called
    /\ hist[1].n # hist[1].m =>
           /\ hist[1].called
           /\ hist[1].ratio = ScrollRatio(hist[1].n - hist[1].m)
    /\ hist[1].left = 0

C26_NoTickLost ==
    ~TimerPending => wheel_delta = 0

(* ---------------------------- GTK front-end ---------------------------- *)
\* GTKSlideViewer.highlight_mode is set from the toggle button and handed to
\* set_highlight_mode in the same handler (lines 332-334), nothing else calls
\* set_highlight_mode: it always equals the handler's highlight_mode, which
\* stands for both

\* _on_highlight_toggled: the button changes state
on_highlight_toggled ==
    /\ steps < MaxSteps
    /\ \E zeroOk \in ZeroOks :
           \E s \in {St} : \E r \in {SetHighlightMode(s, Some(~highlight_mode), zeroOk)} :
               Commit(r, "set_highlight_mode", <<>>)

\* _on_mouse_pressed with the left button, in highlight mode
on_mouse_pressed_highlight ==
    /\ steps < MaxSteps
    /\ highlight_mode
    /\ \E loc_disp \in DispPoints(disp), zeroOk \in ZeroOks :
           \E s \in {St} : \E r \in {SetHighlightTile(s, loc_disp, Absent, zeroOk)} :
               Commit(r, "set_highlight_tile", loc_disp)

\* _on_mouse_pressed with the left button otherwise: a selection begins, the
\* core is not called
on_mouse_pressed_select ==
    /\ steps < MaxSteps
    /\ ~highlight_mode
    /\ steps' = steps + 1
    /\ last' = [op |-> "_on_mouse_pressed", arg |-> <<>>, err |-> None, shown |-> FALSE]
    /\ hist' = Absent
    /\ UNCHANGED <<core, disp, frame, tkgui>>

NextGtk ==
    \/ open_image
    \/ on_highlight_toggled
    \/ on_mouse_pressed_highlight
    \/ on_mouse_pressed_select

SpecGtk == InitLaidOut /\ [][NextGtk]_vars

\* C24: in the GTK front-end a left click issues a tile toggle only while
\* highlight mode is on, and at every such toggle the core's highlight grid
\* has already been initialized, so no toggle issued by the front-end fails
\* with the 'not initialized' error, in any order of open, highlight-mode and
\* click events.
C24_ClickFindsGrid ==
    [][(last'.op = "set_highlight_tile") =>
           /\ highlight_mode
           /\ highlighted_area # Absent
           /\ last'.err # "ValueError"]_vars

\* C25: before any image has been opened, each of drag, zoom_in, zoom_out,
\* zoom_select and redraw_image_resize returns without raising and leaves the
\* session state (source image, viewport, pyramid, highlight grid) unchanged.
C25_EmptyGesturesNoOp ==
    [][(~Loaded /\ last'.op \in {"drag", "zoom_in", "zoom_out", "zoom_select",
                                 "redraw_image_resize"}) =>
           /\ last'.err = None
           /\ UNCHANGED <<src_image, current_view, image_cache, highlighted_area>>]_vars

====
